---- MODULE Spec2Model ----
(***************************************************************************)
(* Model of a2dp_agent.py: the BlueZ pairing agent A2dpAgent (the nine     *)
(* org.bluez.Agent1 methods) and the startup sequence of _run()/main().    *)
(***************************************************************************)
EXTENDS Integers, Sequences, FiniteSets, TLC

VARIABLES
    pc,            \* the statement of _run() that is executed next, or "done"
    failAt,        \* environment: the bus operation that raises in this run
    sigint,        \* environment: whether the operator sends an interrupt
    attempts,      \* how often each statement of _run() has been executed
    failed,        \* the statement that raised, or "none"
    exitCode,      \* process exit status, -1 while the process runs
    exitReason,    \* why main() returned
    connected,     \* MessageBus.connect() has returned a connected bus
    properties,    \* the adapter's Properties interface has been resolved
    manager,       \* the AgentManager1 interface has been resolved
    propsSet,      \* the Properties.Set calls accepted by the adapter, in order
    exported,      \* the object paths at which an A2dpAgent is exported
    managerCalls,  \* the AgentManager1 calls accepted by the daemon, in order
    log            \* the method calls dispatched to the agent, with their replies

vars == <<pc, failAt, sigint, attempts, failed, exitCode, exitReason, connected,
          properties, manager, propsSet, exported, managerCalls, log>>

(* ------------------------------ bounds -------------------------------- *)

\* Number of inbound agent calls followed in one run.
MaxCalls == 2

\* Cap of the per-statement execution counter.
MaxAttempts == 2

(* ----------------------------- constants ------------------------------ *)

A2DP_UUID == "0000110d-0000-1000-8000-00805f9b34fb"

AGENT_PATH == "/local/ad2pagent"

REJECTED == "org.bluez.Error.Rejected"

\* Inputs the daemon may pass to the agent.
Devices == {"/org/bluez/hci0/dev_AA_BB", "/org/bluez/hci0/dev_CC_DD"}

UUIDs == {A2DP_UUID,
          "0000110a-0000-1000-8000-00805f9b34fb",
          "0000110D-0000-1000-8000-00805F9B34FB"}

PinCodes == {"1234"}

Passkeys == {123456}

\* Variant of Ops in which Cancel is not exported.
Ops_without_cancel ==
    {"Release", "AuthorizeService", "RequestPinCode", "DisplayPinCode",
     "RequestPasskey", "DisplayPasskey", "RequestConfirmation",
     "RequestAuthorization"}

\* The methods of A2dpAgent that carry @method(), i.e. the members of the
\* exported org.bluez.Agent1 interface.
Ops == {"Release", "AuthorizeService", "RequestPinCode", "DisplayPinCode",
        "RequestPasskey", "DisplayPasskey", "RequestConfirmation",
        "RequestAuthorization", "Cancel"}

(* ------------------------- the agent's methods ------------------------ *)

\* A method that returns: sig is the D-Bus signature of the returned value
\* ("" for no value), str/num the value.
Return(sig, str, num) ==
    [kind |-> "return", sig |-> sig, str |-> str, num |-> num, error |-> ""]

\* A method that raises DBusError(name, ...).
Raise(name) ==
    [kind |-> "error", sig |-> "", str |-> "", num |-> 0, error |-> name]

ReturnNone == Return("", "", 0)

Release == ReturnNone

\* Variant of AuthorizeService that compares the UUID without regard to case.
AuthorizeService_nocase(device, uuid) ==
    IF uuid \in {A2DP_UUID, "0000110D-0000-1000-8000-00805F9B34FB"}
    THEN ReturnNone ELSE Raise(REJECTED)

\* Variant of AuthorizeService that keeps shared state: it authorizes one
\* A2DP connection and rejects every later request.
AuthorizeService_once(device, uuid) ==
    IF /\ uuid = A2DP_UUID
       /\ \A i \in 1..Len(log) :
             log[i].req.op = "AuthorizeService" => log[i].replies[1].kind = "error"
    THEN ReturnNone ELSE Raise(REJECTED)

AuthorizeService(device, uuid) ==
    IF uuid = A2DP_UUID THEN ReturnNone ELSE Raise(REJECTED)

\* Variant of RequestPinCode that formats the number 0000 instead of
\* returning the string literal.
RequestPinCode_formatted(device) == Return("s", "0", 0)

RequestPinCode(device) == Return("s", "0000", 0)

DisplayPinCode(device, pincode) == ReturnNone

RequestPasskey(device) == Return("u", "", 0)

DisplayPasskey(device, passkey, entered) == ReturnNone

\* Variant of RequestConfirmation that rejects like RequestAuthorization.
RequestConfirmation_reject(device, passkey) == Raise(REJECTED)

\* Variant of RequestConfirmation that accepts only the passkey the agent
\* itself hands out.
RequestConfirmation_checked(device, passkey) ==
    IF passkey = 0 THEN ReturnNone ELSE Raise(REJECTED)

RequestConfirmation(device, passkey) == ReturnNone

\* Variant of RequestAuthorization that returns without raising.
RequestAuthorization_allow(device) == ReturnNone

RequestAuthorization(device) == Raise(REJECTED)

Cancel == ReturnNone

\* The method calls the daemon can send: one record shape for all methods,
\* the arguments a method does not take are "-" / 0.
Request(op, device, uuid, pincode, passkey, entered) ==
    [op |-> op, device |-> device, uuid |-> uuid, pincode |-> pincode,
     passkey |-> passkey, entered |-> entered]

Requests ==
    {Request("Release", "-", "-", "-", 0, 0), Request("Cancel", "-", "-", "-", 0, 0)}
    \cup {Request("AuthorizeService", d, u, "-", 0, 0) : d \in Devices, u \in UUIDs}
    \cup {Request(o, d, "-", "-", 0, 0) :
            o \in {"RequestPinCode", "RequestPasskey", "RequestAuthorization"},
            d \in Devices}
    \cup {Request("DisplayPinCode", d, "-", p, 0, 0) : d \in Devices, p \in PinCodes}
    \cup {Request("DisplayPasskey", d, "-", "-", k, 0) : d \in Devices, k \in Passkeys}
    \cup {Request("RequestConfirmation", d, "-", "-", k, 0) :
            d \in Devices, k \in Passkeys}

\* The method of the exported A2dpAgent that a call is routed to.
Handler(req) ==
    CASE req.op = "Release" -> Release
      [] req.op = "AuthorizeService" -> AuthorizeService(req.device, req.uuid)
      [] req.op = "RequestPinCode" -> RequestPinCode(req.device)
      [] req.op = "DisplayPinCode" -> DisplayPinCode(req.device, req.pincode)
      [] req.op = "RequestPasskey" -> RequestPasskey(req.device)
      [] req.op = "DisplayPasskey" ->
            DisplayPasskey(req.device, req.passkey, req.entered)
      [] req.op = "RequestConfirmation" ->
            RequestConfirmation(req.device, req.passkey)
      [] req.op = "RequestAuthorization" -> RequestAuthorization(req.device)
      [] req.op = "Cancel" -> Cancel

\* Variant of Dispatch in which Cancel lacks its @method() decorator: the bus
\* answers the call itself with UnknownMethod.
Dispatch_undecorated(req) ==
    IF req.op = "Cancel"
    THEN <<Raise("org.freedesktop.DBus.Error.UnknownMethod")>>
    ELSE <<Handler(req)>>

\* The replies sent for one dispatched call: the method runs to completion
\* (it has no suspension point) and its return or its DBusError is the reply.
\* A member the interface does not export is answered by the bus itself.
Dispatch(req) ==
    IF req.op \in Ops
    THEN <<Handler(req)>>
    ELSE <<Raise("org.freedesktop.DBus.Error.UnknownMethod")>>

(* --------------------------- startup sequence ------------------------- *)

Steps == <<"connect", "resolve_adapter", "set_timeout", "set_discoverable",
           "resolve_manager", "export", "register_agent",
           "request_default_agent", "wait">>

StepSet == {Steps[i] : i \in 1..Len(Steps)}

\* bus.export() of a fresh object on a fresh connection does not raise; every
\* awaited bus operation can.
Failable == StepSet \ {"export"}

StartupSteps == StepSet \ {"wait"}

\* Variant of Successor that exports the agent right after the adapter is
\* made discoverable and resolves the agent manager afterwards.
Successor_export_first(step) ==
    CASE step = "connect" -> "resolve_adapter"
      [] step = "resolve_adapter" -> "set_timeout"
      [] step = "set_timeout" -> "set_discoverable"
      [] step = "set_discoverable" -> "export"
      [] step = "export" -> "resolve_manager"
      [] step = "resolve_manager" -> "register_agent"
      [] step = "register_agent" -> "request_default_agent"
      [] step = "request_default_agent" -> "wait"
      [] step = "wait" -> "done"

\* Variant of Successor that registers the agent path before an object is
\* exported at it.
Successor_register_first(step) ==
    CASE step = "connect" -> "resolve_adapter"
      [] step = "resolve_adapter" -> "set_timeout"
      [] step = "set_timeout" -> "set_discoverable"
      [] step = "set_discoverable" -> "resolve_manager"
      [] step = "resolve_manager" -> "register_agent"
      [] step = "register_agent" -> "export"
      [] step = "export" -> "request_default_agent"
      [] step = "request_default_agent" -> "wait"
      [] step = "wait" -> "done"

\* Variant of Successor that enables discoverability before it sets the
\* timeout.
Successor_discoverable_first(step) ==
    CASE step = "connect" -> "resolve_adapter"
      [] step = "resolve_adapter" -> "set_discoverable"
      [] step = "set_discoverable" -> "set_timeout"
      [] step = "set_timeout" -> "resolve_manager"
      [] step = "resolve_manager" -> "export"
      [] step = "export" -> "register_agent"
      [] step = "register_agent" -> "request_default_agent"
      [] step = "request_default_agent" -> "wait"
      [] step = "wait" -> "done"

\* Variant of Successor that never requests to be the default agent.
Successor_no_default(step) ==
    CASE step = "connect" -> "resolve_adapter"
      [] step = "resolve_adapter" -> "set_timeout"
      [] step = "set_timeout" -> "set_discoverable"
      [] step = "set_discoverable" -> "resolve_manager"
      [] step = "resolve_manager" -> "export"
      [] step = "export" -> "register_agent"
      [] step = "register_agent" -> "wait"
      [] step = "request_default_agent" -> "wait"
      [] step = "wait" -> "done"

\* The statement that follows `step` in _run() when `step` does not raise.
Successor(step) ==
    CASE step = "connect" -> "resolve_adapter"
      [] step = "resolve_adapter" -> "set_timeout"
      [] step = "set_timeout" -> "set_discoverable"
      [] step = "set_discoverable" -> "resolve_manager"
      [] step = "resolve_manager" -> "export"
      [] step = "export" -> "register_agent"
      [] step = "register_agent" -> "request_default_agent"
      [] step = "request_default_agent" -> "wait"
      [] step = "wait" -> "done"

\* Variant of Raises in which a failed adapter lookup is swallowed.
Raises_lookup_swallowed(step) ==
    step \in Failable \ {"resolve_adapter"} /\ failAt = step

\* Whether `step` raises in this run.
Raises(step) == step \in Failable /\ failAt = step

\* Variant of AfterRaise that tries the failed statement again.
AfterRaise_retry(step) == step

\* Where control goes when `step` raises: no statement of _run() or main()
\* catches the exception, so it leaves asyncio.run() and ends the process.
AfterRaise(step) == "done"

\* Variant of UncaughtExit in which main() swallows every exception.
UncaughtExit_swallowed == [code |-> 0, reason |-> "error"]

\* The exit status after an exception other than KeyboardInterrupt left main().
UncaughtExit == [code |-> 1, reason |-> "error"]

\* Variant of NormalExit in which only the blocking wait is guarded against
\* KeyboardInterrupt: an interrupt during startup ends the process like any
\* uncaught exception.
NormalExit_wait_only(cause) ==
    IF cause = "interrupt" /\ pc # "wait"
    THEN [code |-> 130, reason |-> cause]
    ELSE [code |-> 0, reason |-> cause]

\* The exit status after main() returned from `cause`.
NormalExit(cause) == [code |-> 0, reason |-> cause]

Variant(name, sig, num, flag) ==
    [name |-> name, sig |-> sig, num |-> num, flag |-> flag]

ManagerCall(member, path, capability) ==
    [member |-> member, path |-> path, capability |-> capability]

Init ==
    /\ pc = "connect"
    /\ failAt \in Failable \cup {"none"}
    /\ sigint \in BOOLEAN
    /\ attempts = [s \in StepSet |-> 0]
    /\ failed = "none"
    /\ exitCode = -1
    /\ exitReason = "running"
    /\ connected = FALSE
    /\ properties = FALSE
    /\ manager = FALSE
    /\ propsSet = <<>>
    /\ exported = {}
    /\ managerCalls = <<>>
    /\ log = <<>>

\* Statement `step` is executed: it raises, or it returns and control moves on.
\* The conjuncts on the variables `step` writes are given by the caller.
Run(step) ==
    /\ pc = step
    /\ attempts[step] < MaxAttempts
    /\ attempts' = [attempts EXCEPT ![step] = @ + 1]
    /\ IF Raises(step)
       THEN /\ pc' = AfterRaise(step)
            /\ failed' = step
            /\ IF pc' = "done"
               THEN exitCode' = UncaughtExit.code /\ exitReason' = UncaughtExit.reason
               ELSE UNCHANGED <<exitCode, exitReason>>
       ELSE /\ pc' = Successor(step)
            /\ failed' = failed
            /\ IF pc' = "done"
               THEN /\ exitCode' = NormalExit("disconnect").code
                    /\ exitReason' = NormalExit("disconnect").reason
               ELSE UNCHANGED <<exitCode, exitReason>>
    /\ UNCHANGED <<failAt, sigint, log>>

\* bus = await MessageBus(bus_type=BusType.SYSTEM).connect()
Connect ==
    /\ Run("connect")
    /\ connected' = ~Raises("connect")
    /\ UNCHANGED <<properties, manager, propsSet, exported, managerCalls>>

\* introspect the adapter object, take its Properties interface
ResolveAdapter ==
    /\ Run("resolve_adapter")
    /\ properties' = ~Raises("resolve_adapter")
    /\ UNCHANGED <<connected, manager, propsSet, exported, managerCalls>>

\* await properties.call_set(..., "DiscoverableTimeout", Variant('u', 0))
SetDiscoverableTimeout ==
    /\ Run("set_timeout")
    /\ propsSet' = IF Raises("set_timeout") THEN propsSet
                   ELSE Append(propsSet, Variant("DiscoverableTimeout", "u", 0, FALSE))
    /\ UNCHANGED <<connected, properties, manager, exported, managerCalls>>

\* await properties.call_set(..., "Discoverable", Variant('b', True))
SetDiscoverable ==
    /\ Run("set_discoverable")
    /\ propsSet' = IF Raises("set_discoverable") THEN propsSet
                   ELSE Append(propsSet, Variant("Discoverable", "b", 0, TRUE))
    /\ UNCHANGED <<connected, properties, manager, exported, managerCalls>>

\* introspect /org/bluez, take its AgentManager1 interface
ResolveManager ==
    /\ Run("resolve_manager")
    /\ manager' = ~Raises("resolve_manager")
    /\ UNCHANGED <<connected, properties, propsSet, exported, managerCalls>>

\* agent = A2dpAgent(); bus.export(AGENT_PATH, agent)
Export ==
    /\ Run("export")
    /\ exported' = exported \cup {AGENT_PATH}
    /\ UNCHANGED <<connected, properties, manager, propsSet, managerCalls>>

\* await manager.call_register_agent(AGENT_PATH, "NoInputNoOutput")
RegisterAgent ==
    /\ Run("register_agent")
    /\ managerCalls' =
         IF Raises("register_agent") THEN managerCalls
         ELSE Append(managerCalls,
                     ManagerCall("RegisterAgent", AGENT_PATH, "NoInputNoOutput"))
    /\ UNCHANGED <<connected, properties, manager, propsSet, exported>>

\* await manager.call_request_default_agent(AGENT_PATH)
RequestDefaultAgent ==
    /\ Run("request_default_agent")
    /\ managerCalls' =
         IF Raises("request_default_agent") THEN managerCalls
         ELSE Append(managerCalls, ManagerCall("RequestDefaultAgent", AGENT_PATH, ""))
    /\ UNCHANGED <<connected, properties, manager, propsSet, exported>>

\* await bus.wait_for_disconnect() completes: the bus has gone. It returns when
\* the connection was closed cleanly and raises when it ended with an error.
Disconnect ==
    /\ Run("wait")
    /\ connected' = FALSE
    /\ UNCHANGED <<properties, manager, propsSet, exported, managerCalls>>

\* Variant of OnExit that switches discoverability off again.
OnExit_reset(props) == Append(props, Variant("Discoverable", "b", 0, FALSE))

\* The adapter property writes after main() has handled KeyboardInterrupt:
\* the handler is `pass`, nothing is written.
OnExit(props) == props

\* The operator interrupts the process while asyncio.run() is running:
\* KeyboardInterrupt leaves asyncio.run() and main() swallows it.
Interrupt ==
    /\ sigint
    /\ pc # "done"
    /\ pc' = "done"
    /\ exitCode' = NormalExit("interrupt").code
    /\ exitReason' = NormalExit("interrupt").reason
    /\ propsSet' = OnExit(propsSet)
    /\ UNCHANGED <<failAt, sigint, attempts, failed, connected, properties,
                   manager, exported, managerCalls, log>>

\* Variant of AfterCallback in which Release ends the process.
AfterCallback_exit_on_release(req, p) ==
    IF req.op = "Release" THEN "done" ELSE p

\* Where _run() stands after the agent has handled `req` while it stood at
\* `p`: no method touches the bus, the event loop or the process.
AfterCallback(req, p) == p

\* The bus dispatches an inbound method call to the exported agent while
\* _run() is suspended in an await.
Callback ==
    /\ pc # "done"
    /\ connected
    /\ AGENT_PATH \in exported
    /\ Len(log) < MaxCalls
    /\ \E req \in Requests :
         /\ log' = Append(log, [req |-> req, replies |-> Dispatch(req)])
         /\ pc' = AfterCallback(req, pc)
    /\ UNCHANGED <<failAt, sigint, attempts, failed, exitCode, exitReason,
                   connected, properties, manager, propsSet, exported,
                   managerCalls>>

Next ==
    \/ Connect
    \/ ResolveAdapter
    \/ SetDiscoverableTimeout
    \/ SetDiscoverable
    \/ ResolveManager
    \/ Export
    \/ RegisterAgent
    \/ RequestDefaultAgent
    \/ Disconnect
    \/ Interrupt
    \/ Callback

Spec == Init /\ [][Next]_vars

\* The eight statements of the startup sequence.
Startup ==
    \/ Connect
    \/ ResolveAdapter
    \/ SetDiscoverableTimeout
    \/ SetDiscoverable
    \/ ResolveManager
    \/ Export
    \/ RegisterAgent
    \/ RequestDefaultAgent

\* The event loop runs _run() whenever the operation it awaits has completed,
\* and every bus operation of the startup sequence completes (with a reply or
\* an error).
LiveSpec == Spec /\ WF_vars(Startup)

(* --------------------------- lifecycle states ------------------------- *)

Discoverable ==
    \E i \in 1..Len(propsSet) : propsSet[i].name = "Discoverable" /\ propsSet[i].flag

TimeoutNever ==
    \E i \in 1..Len(propsSet) :
        propsSet[i].name = "DiscoverableTimeout" /\ propsSet[i].num = 0

Called(member) ==
    \E i \in 1..Len(managerCalls) :
        managerCalls[i].member = member /\ managerCalls[i].path = AGENT_PATH

\* The furthest lifecycle state the run has reached, from what it has done.
Lifecycle ==
    IF Called("RequestDefaultAgent") THEN "Registered"
    ELSE IF AGENT_PATH \in exported THEN "Exported"
    ELSE IF Discoverable THEN "Discoverable"
    ELSE IF attempts["connect"] > 0 /\ failed # "connect" THEN "Connected"
    ELSE "Disconnected"

Rank(state) ==
    CASE state = "Disconnected" -> 0
      [] state = "Connected" -> 1
      [] state = "Discoverable" -> 2
      [] state = "Exported" -> 3
      [] state = "Registered" -> 4

StepIndex(step) == CHOOSE i \in 1..Len(Steps) : Steps[i] = step

Entries == 1..Len(log)

Allowed(i) ==
    /\ Len(log[i].replies) = 1
    /\ log[i].replies[1].kind = "return"
    /\ log[i].replies[1].error = ""

Denied(i) ==
    /\ Len(log[i].replies) = 1
    /\ log[i].replies[1].kind = "error"
    /\ log[i].replies[1].error = "org.bluez.Error.Rejected"

NoValue(i) == log[i].replies[1].sig = ""

(* -------------------------------- claims ------------------------------ *)

\* C1: every AuthorizeService call is allowed (returns without error, no
\* value) exactly when its uuid is the string
\* "0000110d-0000-1000-8000-00805f9b34fb", and is otherwise denied with
\* org.bluez.Error.Rejected, whatever the device and the earlier calls.
C1_AuthorizeServiceIffA2dp ==
    \A i \in Entries :
        log[i].req.op = "AuthorizeService" =>
            IF log[i].req.uuid = "0000110d-0000-1000-8000-00805f9b34fb"
            THEN Allowed(i) /\ NoValue(i)
            ELSE Denied(i)

\* An upper-case spelling of the A2DP UUID was denied and then the exact
\* UUID allowed, both for the same device.
C1_Witness ==
    /\ Len(log) = 2
    /\ log[1].req.op = "AuthorizeService" /\ log[2].req.op = "AuthorizeService"
    /\ log[1].req.device = log[2].req.device
    /\ log[1].req.uuid = "0000110D-0000-1000-8000-00805F9B34FB" /\ Denied(1)
    /\ log[2].req.uuid = A2DP_UUID /\ Allowed(2)

\* C2: every RequestAuthorization call is denied with
\* org.bluez.Error.Rejected, whatever the device and the earlier calls.
C2_RequestAuthorizationDenied ==
    \A i \in Entries : log[i].req.op = "RequestAuthorization" => Denied(i)

\* RequestAuthorization was denied for a device right after an
\* AuthorizeService call for that device had been allowed.
C2_Witness ==
    /\ Len(log) = 2
    /\ log[1].req.op = "AuthorizeService" /\ Allowed(1)
    /\ log[2].req.op = "RequestAuthorization" /\ Denied(2)
    /\ log[1].req.device = log[2].req.device

\* C3: every RequestPinCode call returns the string "0000" and every
\* RequestPasskey call returns the number 0; neither raises.
C3_ConstantPinAndPasskey ==
    \A i \in Entries :
        /\ log[i].req.op = "RequestPinCode" =>
              /\ Allowed(i)
              /\ log[i].replies[1].sig = "s"
              /\ log[i].replies[1].str = "0000"
        /\ log[i].req.op = "RequestPasskey" =>
              /\ Allowed(i)
              /\ log[i].replies[1].sig = "u"
              /\ log[i].replies[1].num = 0

\* A PIN request for one device and a passkey request for another were
\* answered after the agent had been registered.
C3_Witness ==
    /\ Len(log) = 2
    /\ log[1].req.op = "RequestPinCode" /\ log[1].replies[1].str = "0000"
    /\ log[2].req.op = "RequestPasskey" /\ log[2].replies[1].sig = "u"
    /\ log[1].req.device # log[2].req.device
    /\ Called("RegisterAgent")

\* C4: Release, DisplayPinCode, DisplayPasskey, RequestConfirmation and
\* Cancel always return without error and without a value.
C4_NoOpsReturnNothing ==
    \A i \in Entries :
        log[i].req.op \in {"Release", "DisplayPinCode", "DisplayPasskey",
                           "RequestConfirmation", "Cancel"}
            => Allowed(i) /\ NoValue(i)

\* A RequestConfirmation call was accepted after a RequestAuthorization call
\* for the same device had been denied.
C4_Witness ==
    /\ Len(log) = 2
    /\ log[1].req.op = "RequestAuthorization" /\ Denied(1)
    /\ log[2].req.op = "RequestConfirmation" /\ Allowed(2) /\ NoValue(2)
    /\ log[1].req.device = log[2].req.device

\* C5: every call dispatched to the agent gets exactly one reply, which is
\* either a return or an org.bluez.Error.Rejected error, and the reply is
\* produced in the step that dispatches the call.
C5_ExactlyOneDecision ==
    /\ [](\A i \in Entries : Allowed(i) \/ Denied(i))
    /\ [][/\ Len(log') \in {Len(log), Len(log) + 1}
          /\ \A i \in Entries : log'[i] = log[i]]_vars

\* A call that is denied and a call that is a no-op were both answered once.
C5_Witness ==
    /\ Len(log) = 2
    /\ log[1].req.op = "RequestAuthorization" /\ Len(log[1].replies) = 1
    /\ log[2].req.op = "Cancel" /\ Len(log[2].replies) = 1

C7_UnresolvableAdapterAborts ==
    failAt = "resolve_adapter" =>
        /\ pc \in {"connect", "resolve_adapter", "done"}
        /\ exported = {} /\ managerCalls = <<>> /\ propsSet = <<>>
        /\ \A s \in StepSet : StepIndex(s) > StepIndex("resolve_adapter")
                                => attempts[s] = 0
        /\ Rank(Lifecycle) < Rank("Exported")
        /\ (attempts["resolve_adapter"] > 0 =>
              pc = "done" /\ failed = "resolve_adapter" /\ exitCode # 0)

\* The adapter lookup has raised and the process has ended.
C7_Witness ==
    /\ failAt = "resolve_adapter"
    /\ failed = "resolve_adapter"
    /\ pc = "done"
    /\ attempts["connect"] = 1 /\ attempts["resolve_adapter"] = 1

C9_NoRetry ==
    /\ \A s \in StepSet : attempts[s] <= 1
    /\ failed # "none" =>
          /\ pc = "done" /\ exitCode # -1
          /\ attempts[failed] = 1
          /\ \A s \in StepSet : StepIndex(s) > StepIndex(failed) => attempts[s] = 0

\* Setting Discoverable was rejected after the timeout had been set.
C9_Witness ==
    /\ failed = "set_discoverable"
    /\ pc = "done"
    /\ attempts["set_timeout"] = 1 /\ attempts["set_discoverable"] = 1
    /\ Len(propsSet) = 1

\* C10 as stated: the agent is exported right after the adapter is made
\* discoverable and before the agent manager is resolved, so a failure to
\* resolve the agent manager happens in the Exported state.
C10_ExportBeforeManager ==
    /\ attempts["resolve_manager"] > 0 => AGENT_PATH \in exported
    /\ failed = "resolve_manager" => Lifecycle = "Exported"

\* C10 amended: the lifecycle passes through Disconnected, Connected,
\* Discoverable, Exported, Registered in this order, one state at a time; the
\* agent manager is resolved right after the adapter is made discoverable and
\* before the agent is exported, so a failure to resolve the agent manager
\* happens in the Discoverable state, with no agent exported.
C10_ManagerBeforeExport ==
    /\ [](/\ AGENT_PATH \in exported => manager /\ Discoverable
          /\ manager => Discoverable
          /\ failed = "resolve_manager" =>
                Lifecycle = "Discoverable" /\ exported = {}
          /\ Called("RegisterAgent") => AGENT_PATH \in exported)
    /\ [][Rank(Lifecycle') \in {Rank(Lifecycle), Rank(Lifecycle) + 1}]_vars

\* The agent manager could not be resolved: the adapter is discoverable and
\* nothing is exported.
C10_Witness ==
    /\ failed = "resolve_manager"
    /\ pc = "done"
    /\ Discoverable
    /\ exported = {}

\* C11 as stated: every device-level authorization prompt, RequestAuthorization
\* and RequestConfirmation alike, is answered with org.bluez.Error.Rejected.
C11_DeviceLevelAllRejected ==
    \A i \in Entries :
        log[i].req.op \in {"RequestAuthorization", "RequestConfirmation"}
            => Denied(i)

\* C11 amended: the calls answered with org.bluez.Error.Rejected are exactly
\* the RequestAuthorization calls and the AuthorizeService calls for a UUID
\* other than the A2DP one; every other call, RequestConfirmation included,
\* returns without error, so a confirmation prompt is accepted.
C11_RejectedExactly ==
    \A i \in Entries :
        /\ Denied(i) <=>
              \/ log[i].req.op = "RequestAuthorization"
              \/ /\ log[i].req.op = "AuthorizeService"
                 /\ log[i].req.uuid # "0000110d-0000-1000-8000-00805f9b34fb"
        /\ ~Denied(i) => Allowed(i)

\* A RequestConfirmation call for a nonzero passkey returned without error
\* and a RequestAuthorization call for the same device was rejected.
C11_Witness ==
    /\ Len(log) = 2
    /\ log[1].req.op = "RequestConfirmation" /\ log[1].req.passkey # 0
    /\ Allowed(1)
    /\ log[2].req.op = "RequestAuthorization" /\ Denied(2)
    /\ log[1].req.device = log[2].req.device

\* C12 as stated: the exported object implements exactly the operations of
\* the spec's operation table, and these are eight.
C12_EightOperations ==
    AGENT_PATH \in exported =>
        /\ Ops = {"Release", "AuthorizeService", "RequestPinCode",
                  "DisplayPinCode", "RequestPasskey", "DisplayPasskey",
                  "RequestConfirmation", "RequestAuthorization", "Cancel"}
        /\ Cardinality(Ops) = 8

\* C12 amended: the exported object implements exactly the operations of the
\* spec's operation table, and these are nine; every call of one of them is
\* answered by the agent's own method.
C12_NineOperations ==
    AGENT_PATH \in exported =>
        /\ Ops = {"Release", "AuthorizeService", "RequestPinCode",
                  "DisplayPinCode", "RequestPasskey", "DisplayPasskey",
                  "RequestConfirmation", "RequestAuthorization", "Cancel"}
        /\ Cardinality(Ops) = 9
        /\ \A i \in Entries :
              /\ log[i].req.op \in Ops
              /\ log[i].replies[1].error # "org.freedesktop.DBus.Error.UnknownMethod"

\* The agent is exported and has answered a Release and a Cancel call.
C12_Witness ==
    /\ AGENT_PATH \in exported
    /\ Len(log) = 2
    /\ log[1].req.op = "Release" /\ Allowed(1)
    /\ log[2].req.op = "Cancel" /\ Allowed(2)

\* C13: register-agent is called only after the agent object is exported at
\* AGENT_PATH, and request-default-agent only after register-agent has
\* succeeded for the same path: every path told to the daemon has an
\* exported object, and the agent is never requested as default unregistered.
C13_ExportRegisterDefaultOrder ==
    /\ attempts["register_agent"] > 0 => AGENT_PATH \in exported
    /\ \A i \in 1..Len(managerCalls) : managerCalls[i].path \in exported
    /\ attempts["request_default_agent"] > 0 =>
          /\ failed # "register_agent"
          /\ Len(managerCalls) >= 1
          /\ managerCalls[1].member = "RegisterAgent"
          /\ managerCalls[1].path = AGENT_PATH
    /\ \A i \in 1..Len(managerCalls) :
          managerCalls[i].member = "RequestDefaultAgent" =>
              \E j \in 1..(i - 1) :
                  /\ managerCalls[j].member = "RegisterAgent"
                  /\ managerCalls[j].path = managerCalls[i].path

\* The daemon refused to make the registered, exported agent the default.
C13_Witness ==
    /\ failed = "request_default_agent"
    /\ AGENT_PATH \in exported
    /\ Len(managerCalls) = 1
    /\ managerCalls[1].member = "RegisterAgent"

\* C14: DiscoverableTimeout is set to 0 before Discoverable is set to true,
\* and Discoverable is set only if the timeout set succeeded: whenever this
\* run has enabled discoverability the timeout it wrote is 0, and in the
\* Exported and Registered states both properties have been set.
C14_TimeoutBeforeDiscoverable ==
    /\ attempts["set_discoverable"] > 0 =>
          /\ failed # "set_timeout"
          /\ Len(propsSet) >= 1
          /\ propsSet[1] = Variant("DiscoverableTimeout", "u", 0, FALSE)
    /\ \A i \in 1..Len(propsSet) :
          /\ propsSet[i].name = "DiscoverableTimeout" => propsSet[i].num = 0
          /\ propsSet[i].name = "Discoverable" =>
                /\ propsSet[i].flag
                /\ \E j \in 1..(i - 1) :
                      /\ propsSet[j].name = "DiscoverableTimeout"
                      /\ propsSet[j].num = 0
    /\ Lifecycle \in {"Exported", "Registered"} =>
          propsSet = <<Variant("DiscoverableTimeout", "u", 0, FALSE),
                       Variant("Discoverable", "b", 0, TRUE)>>

\* The agent is exported and both adapter properties have been written.
C14_Witness ==
    /\ Lifecycle = "Exported"
    /\ Len(propsSet) = 2
    /\ propsSet[2].name = "Discoverable"

\* C15: the methods share no mutable state: in every interleaving of calls,
\* two calls of the same operation (and, for AuthorizeService, the same uuid)
\* get the same decision, whatever their devices, their order and the calls
\* made before them.
C15_DecisionDependsOnOpAndUuidOnly ==
    \A i, j \in Entries :
        (/\ log[i].req.op = log[j].req.op
         /\ log[i].req.op = "AuthorizeService" => log[i].req.uuid = log[j].req.uuid)
            => log[i].replies = log[j].replies

\* Two AuthorizeService calls for the A2DP UUID from different devices were
\* both allowed.
C15_Witness ==
    /\ Len(log) = 2
    /\ log[1].req.op = "AuthorizeService" /\ log[2].req.op = "AuthorizeService"
    /\ log[1].req.uuid = A2DP_UUID /\ log[2].req.uuid = A2DP_UUID
    /\ log[1].req.device # log[2].req.device
    /\ Allowed(1) /\ Allowed(2)

\* C16: once Registered, the run leaves the blocking wait only by bus
\* disconnection or operator interrupt; handling a call, a rejected one
\* included, changes nothing but the reply sent, and in the wait the agent
\* stays ready to answer the next call.
C16_CallbacksKeepWaiting ==
    /\ [][log' # log =>
            /\ pc' = pc /\ exitCode' = exitCode /\ exitReason' = exitReason
            /\ failed' = failed /\ connected' = connected
            /\ exported' = exported /\ managerCalls' = managerCalls
            /\ propsSet' = propsSet]_vars
    /\ [][(pc = "wait" /\ pc' # "wait") =>
            /\ pc' = "done"
            /\ log' = log
            /\ exitReason' = "interrupt" \/ ~connected']_vars
    /\ [](pc = "wait" =>
            /\ Lifecycle = "Registered"
            /\ Len(log) < MaxCalls => ENABLED Callback)

\* In the blocking wait a call was rejected and Release was handled, and the
\* process is still waiting.
C16_Witness ==
    /\ pc = "wait"
    /\ exitCode = -1
    /\ Len(log) = 2
    /\ log[1].req.op = "RequestAuthorization" /\ Denied(1)
    /\ log[2].req.op = "Release"

\* C17: an operator interrupt is handled the same way in every state of the
\* run, startup included: it is always possible while the process runs, it
\* ends the process with exit code 0 and no error, and it changes nothing
\* else, so a run can exit normally without ever being Registered.
C17_InterruptAnywhere ==
    /\ []((sigint /\ pc # "done") => ENABLED Interrupt)
    /\ [][(exitReason' = "interrupt" /\ exitReason # "interrupt") =>
            /\ pc' = "done"
            /\ exitCode' = 0
            /\ failed = "none" /\ failed' = "none"
            /\ Lifecycle' = Lifecycle]_vars
    /\ [](exitReason = "interrupt" => pc = "done" /\ exitCode = 0)

\* The process was interrupted between connecting and making the adapter
\* discoverable and has exited with code 0.
C17_Witness ==
    /\ pc = "done"
    /\ exitReason = "interrupt"
    /\ exitCode = 0
    /\ Lifecycle = "Connected"
    /\ attempts["set_timeout"] = 1

\* C18: no startup effect is ever undone: the adapter property writes, the
\* exported paths and the agent-manager calls only grow, the only writes are
\* DiscoverableTimeout = 0 and Discoverable = true, the only manager calls
\* are RegisterAgent and RequestDefaultAgent; so a process that has ended
\* after the Discoverable step leaves the adapter discoverable with timeout 0.
C18_NothingUndone ==
    /\ [][/\ Len(propsSet') >= Len(propsSet)
          /\ \A i \in 1..Len(propsSet) : propsSet'[i] = propsSet[i]
          /\ exported \subseteq exported'
          /\ Len(managerCalls') >= Len(managerCalls)
          /\ \A i \in 1..Len(managerCalls) : managerCalls'[i] = managerCalls[i]]_vars
    /\ [](/\ \A i \in 1..Len(propsSet) :
                propsSet[i] \in {Variant("DiscoverableTimeout", "u", 0, FALSE),
                                 Variant("Discoverable", "b", 0, TRUE)}
          /\ \A i \in 1..Len(managerCalls) :
                managerCalls[i].member \in {"RegisterAgent", "RequestDefaultAgent"}
          /\ (pc = "done" /\ attempts["set_discoverable"] > 0
                          /\ failed # "set_discoverable") =>
                propsSet = <<Variant("DiscoverableTimeout", "u", 0, FALSE),
                             Variant("Discoverable", "b", 0, TRUE)>>)

\* The process was interrupted with the agent exported but not registered:
\* the adapter is still discoverable with timeout 0.
C18_Witness ==
    /\ pc = "done"
    /\ exitReason = "interrupt"
    /\ Lifecycle = "Exported"
    /\ managerCalls = <<>>
    /\ Discoverable /\ TimeoutNever
    /\ propsSet[Len(propsSet)].flag

====
